---- MODULE Spec2Model ----
(***************************************************************************)
(* FinTech backend (src/api/index.py, src/models/expense.py): the two     *)
(* FastAPI handlers create_entry and list_entries, the CouchDB helpers    *)
(* they call, and the document store they talk to over HTTP.              *)
(*                                                                         *)
(* Text (database names, URLs, identifiers) is a sequence of one-character *)
(* strings, so that strip, the name grammar and percent-encoding are       *)
(* computed character by character as the code computes them.              *)
(***************************************************************************)
EXTENDS Integers, Sequences, FiniteSets, TLC

VARIABLES
    env,     \* the process environment read by os.getenv
    store,   \* the document store: how it answers, and the databases it holds
    req      \* per request slot: the handler's position, locals and event trace

vars == <<env, store, req>>

-----------------------------------------------------------------------------
(* Bounds of the model.                                                    *)

NumReqs == 2        \* concurrent requests in Spec
MaxRows == 2        \* rows in an _all_docs response in SpecInputs
MaxNameLen == 2     \* characters of a configured database name in SpecNames
NumChoices == 2     \* alphabet positions secrets.choice may return in SpecInputs

-----------------------------------------------------------------------------
(* Characters and text helpers.                                            *)

Lower == {"a", "b", "c", "d", "e", "f", "g", "h", "i", "j", "k", "l", "m",
          "n", "o", "p", "q", "r", "s", "t", "u", "v", "w", "x", "y", "z"}
Upper == {"A", "B", "C", "D", "E", "F", "G", "H", "I", "J", "K", "L", "M",
          "N", "O", "P", "Q", "R", "S", "T", "U", "V", "W", "X", "Y", "Z"}
Digits == {"0", "1", "2", "3", "4", "5", "6", "7", "8", "9"}
Whitespace == {" ", "\t", "\n", "\r"}

\* os.getenv of a variable that is not set.
None == <<"None">>

\* Python's `a or b` on str-or-None values: None and "" are falsy.
Or(a, b) == IF a = None \/ a = <<>> THEN b ELSE a

RECURSIVE LStrip(_, _)
LStrip(s, chars) ==
    IF s # <<>> /\ Head(s) \in chars THEN LStrip(Tail(s), chars) ELSE s

RECURSIVE RStrip(_, _)
RStrip(s, chars) ==
    IF s # <<>> /\ s[Len(s)] \in chars
    THEN RStrip(SubSeq(s, 1, Len(s) - 1), chars)
    ELSE s

\* str.strip(chars); str.strip() strips whitespace.
Strip(s, chars) == RStrip(LStrip(s, chars), chars)

RECURSIVE Concat(_)
Concat(ss) == IF ss = <<>> THEN <<>> ELSE Head(ss) \o Concat(Tail(ss))

\* ord() of the characters percent-encoding is applied to in this model.
Ord(c) ==
    CASE c = " " -> 32
      [] c = "\"" -> 34
      [] c = "$" -> 36
      [] c = "'" -> 39
      [] c = "(" -> 40
      [] c = ")" -> 41
      [] c = "+" -> 43
      [] c = "/" -> 47
      [] c = "\t" -> 9
      [] c = "\n" -> 10
      [] c = "\r" -> 13
      [] c = ":" -> 58

HexDigit == <<"0", "1", "2", "3", "4", "5", "6", "7", "8", "9",
              "A", "B", "C", "D", "E", "F">>

\* urllib.parse.quote(s, safe=''): letters, digits and _.-~ are kept, every
\* other character becomes %XX.
quote(s) ==
    Concat([i \in 1..Len(s) |->
        IF s[i] \in Lower \cup Upper \cup Digits \cup {"_", ".", "-", "~"}
        THEN <<s[i]>>
        ELSE <<"%", HexDigit[(Ord(s[i]) \div 16) + 1], HexDigit[(Ord(s[i]) % 16) + 1]>>])

-----------------------------------------------------------------------------
(* Exceptions: a type and the message as the pieces of its f-string.       *)

Exc(type, msg) == [type |-> type, msg |-> msg]

\* fastapi.HTTPException(status_code=500, detail=...)
HTTPException(detail) == [type |-> "HTTPException", msg |-> detail]

\* str(e): the message of a RuntimeError; "<status>: <detail>" for an
\* HTTPException.
Str(e) ==
    IF e.type = "HTTPException" THEN <<"500", ": ">> \o e.msg ELSE e.msg

-----------------------------------------------------------------------------
(* get_couch_config.                                                       *)

getenv(e, k) == IF k \in DOMAIN e THEN e[k] ELSE None

\* Either [ok |-> TRUE, base_url, db] or [ok |-> FALSE, exc].
get_couch_config(e) ==
    LET couch_url ==
            Strip(Strip(Strip(
                Or(getenv(e, "COUCHDB_URL"),
                   Or(getenv(e, "NEXT_PUBLIC_COUCHDB_URL"), <<>>)),
                Whitespace), {"\""}), {"'"})
        db_name ==
            Strip(Or(getenv(e, "COUCHDB_DB"),
                     Or(getenv(e, "NEXT_PUBLIC_DB_NAME"),
                        <<"f", "i", "n", "t", "e", "c", "h">>)),
                  Whitespace)
    IN  IF couch_url = <<>>
        THEN [ok |-> FALSE,
              exc |-> HTTPException(<<"Config error: ",
                                      "COUCHDB_URL missing in environment">>)]
        ELSE [ok |-> TRUE, base_url |-> RStrip(couch_url, {"/"}), db |-> db_name]

-----------------------------------------------------------------------------
(* validate_db_name.                                                       *)

DbNameRest == Lower \cup Digits \cup {"_", "$", "(", ")", "+", "-", "/"}

\* re.compile(r"^[a-z][a-z0-9_\$\(\)\+\-\/]*$").match(s): `$` also matches
\* just before a trailing newline.
PatternMatch(s) ==
    LET t == IF s # <<>> /\ s[Len(s)] = "\n" THEN SubSeq(s, 1, Len(s) - 1) ELSE s
    IN  /\ t # <<>>
        /\ t[1] \in Lower
        /\ \A i \in 2..Len(t) : t[i] \in DbNameRest

ValidateMutAcceptAll(db_name) == [ok |-> TRUE]

\* Either [ok |-> TRUE] or [ok |-> FALSE, exc].
validate_db_name(db_name) ==
    IF db_name = <<>>
    THEN [ok |-> FALSE,
          exc |-> Exc("RuntimeError",
                      <<"COUCHDB_DB (or NEXT_PUBLIC_DB_NAME) is empty or invalid">>)]
    ELSE IF ~PatternMatch(db_name)
    THEN [ok |-> FALSE,
          exc |-> Exc("RuntimeError",
                      <<"Invalid CouchDB database name. Use lowercase a-z, 0-9, and _$()+-/">>)]
    ELSE [ok |-> TRUE]

-----------------------------------------------------------------------------
(* JSON values of a store response.                                        *)

JNull == [t |-> "null"]
JStr(s) == [t |-> "str", v |-> s]
JArr(a) == [t |-> "arr", v |-> a]
JObj(f) == [t |-> "obj", v |-> f]

\* isinstance(x, dict)
IsDict(x) == x.t = "obj"

\* dict.get(key, default)
DictGet(d, key, default) == IF key \in DOMAIN d.v THEN d.v[key] ELSE default

\* x == "<literal>"
EqStr(x, lit) == x.t = "str" /\ x.v = lit

-----------------------------------------------------------------------------
(* ensure_db_exists: the path it addresses and its two decisions.          *)

db_path(base_url, db) == base_url \o <<"/">> \o quote(db)

Raise(e) == [next |-> "raise", exc |-> e]

EnsureAfterGetMutPutOnAnyFailure(status, text) ==
    IF status = 200 THEN [next |-> "return"] ELSE [next |-> "put"]

\* What follows the GET: return, go on to the PUT, or raise.
EnsureAfterGet(status, text) ==
    IF status = 200 THEN [next |-> "return"]
    ELSE IF status \in {401, 403}
    THEN Raise(Exc("RuntimeError",
                   <<"Unauthorized to access CouchDB. Check credentials/URL.">>))
    ELSE IF status \notin {404}
    THEN Raise(Exc("RuntimeError",
                   <<"Failed to query DB: ", ToString(status), " ", text>>))
    ELSE [next |-> "put"]

EnsureAfterPutMutNo412(status, text) ==
    IF status \in {200, 201, 202} THEN [next |-> "return"]
    ELSE IF status \in {401, 403}
    THEN Raise(Exc("RuntimeError",
                   <<"Unauthorized to create DB. Check credentials/URL.">>))
    ELSE Raise(Exc("RuntimeError",
                   <<"Failed to ensure DB exists: ", ToString(status), " ", text>>))

EnsureAfterPutMutNoBody(status, text) ==
    IF status \in {200, 201, 202, 412} THEN [next |-> "return"]
    ELSE IF status \in {401, 403}
    THEN Raise(Exc("RuntimeError",
                   <<"Unauthorized to create DB. Check credentials/URL.">>))
    ELSE Raise(Exc("RuntimeError", <<"Failed to ensure DB exists">>))

\* What follows the PUT: return or raise.
EnsureAfterPut(status, text) ==
    IF status \in {200, 201, 202, 412} THEN [next |-> "return"]
    ELSE IF status \in {401, 403}
    THEN Raise(Exc("RuntimeError",
                   <<"Unauthorized to create DB. Check credentials/URL.">>))
    ELSE Raise(Exc("RuntimeError",
                   <<"Failed to ensure DB exists: ", ToString(status), " ", text>>))

-----------------------------------------------------------------------------
(* generate_short_id.                                                      *)

AlphabetMutAmbiguous ==
    <<"0", "1", "2", "3", "4", "5", "6", "7", "8", "9",
      "A", "B", "C", "D", "E", "F", "G", "H", "J", "K", "L", "M",
      "N", "P", "Q", "R", "S", "T", "U", "V", "W", "X", "Y", "Z",
      "a", "b", "c", "d", "e", "f", "g", "h", "j", "k", "m",
      "n", "p", "q", "r", "s", "t", "u", "v", "w", "x", "y", "z">>

alphabet ==
    <<"2", "3", "4", "5", "6", "7", "8", "9",
      "A", "B", "C", "D", "E", "F", "G", "H", "J", "K", "L", "M",
      "N", "P", "Q", "R", "S", "T", "U", "V", "W", "X", "Y", "Z",
      "a", "b", "c", "d", "e", "f", "g", "h", "j", "k", "m",
      "n", "p", "q", "r", "s", "t", "u", "v", "w", "x", "y", "z">>

\* "".join(secrets.choice(alphabet) for _ in range(length)): choice[i] is the
\* position of the alphabet the i-th draw returns.
generate_short_id(length, choice) ==
    [i \in 1..length |-> alphabet[choice[i]]]

-----------------------------------------------------------------------------
(* The row filter of list_entries.                                         *)

RECURSIVE FilterRowsMutNoTypeCheck(_)
FilterRowsMutNoTypeCheck(rows) ==
    IF rows = <<>> THEN <<>>
    ELSE LET doc == DictGet(Head(rows), "doc", JNull)
         IN  (IF IsDict(doc) THEN <<doc>> ELSE <<>>)
             \o FilterRowsMutNoTypeCheck(Tail(rows))

RECURSIVE FilterRowsLoop(_)
FilterRowsLoop(rows) ==
    IF rows = <<>> THEN <<>>
    ELSE LET doc == DictGet(Head(rows), "doc", JNull)
         IN  (IF IsDict(doc) /\ EqStr(DictGet(doc, "type", JNull), "entry")
              THEN <<doc>> ELSE <<>>)
             \o FilterRowsLoop(Tail(rows))

\* docs = [] ; for row in rows: ... docs.append(doc)
FilterRows(rows) == FilterRowsLoop(rows)

-----------------------------------------------------------------------------
(* The document store, an external collaborator reached over HTTP.  A      *)
(* store of kind "any" answers every request with any status; a store of   *)
(* kind "couch" answers as CouchDB does for the databases it holds.        *)

AllDocsSuffix == <<"/", "_", "a", "l", "l", "_", "d", "o", "c", "s">>

EndsWith(s, suffix) ==
    /\ Len(s) >= Len(suffix)
    /\ SubSeq(s, Len(s) - Len(suffix) + 1, Len(s)) = suffix

DropSuffix(s, suffix) == SubSeq(s, 1, Len(s) - Len(suffix))

Resp(status, text, json) ==
    [raised |-> FALSE, status |-> status, text |-> text, json |-> json]

\* The call raised instead of returning a response (connect error, timeout).
TransportFailure ==
    [raised |-> TRUE, status |-> 0, text |-> "timed out", json |-> JNull]

AnyAnswers(st, snd, P) ==
    {[res |-> Resp(s, t, JNull), store |-> st] :
        s \in (IF snd.method = "GET" /\ EndsWith(snd.url, AllDocsSuffix)
               THEN P.statuses \ {200} ELSE P.statuses),
        t \in P.texts}
    \cup (IF snd.method = "GET" /\ EndsWith(snd.url, AllDocsSuffix)
          THEN {[res |-> Resp(200, "rows", b), store |-> st] : b \in P.bodies}
          ELSE {})
    \cup {[res |-> TransportFailure, store |-> st]}

CouchAnswers(st, snd, P) ==
    IF snd.method = "PUT"
    THEN IF snd.url \in st.dbs
         THEN {[res |-> Resp(412, "file_exists", JNull), store |-> st]}
         ELSE {[res |-> Resp(201, "ok", JNull),
                store |-> [st EXCEPT !.dbs = @ \cup {snd.url}]]}
    ELSE IF EndsWith(snd.url, AllDocsSuffix)
    THEN IF DropSuffix(snd.url, AllDocsSuffix) \in st.dbs
         THEN {[res |-> Resp(200, "rows", b), store |-> st] : b \in P.bodies}
         ELSE {[res |-> Resp(404, "not_found", JNull), store |-> st]}
    ELSE IF snd.url \in st.dbs
         THEN {[res |-> Resp(200, "ok", JNull), store |-> st]}
         ELSE {[res |-> Resp(404, "not_found", JNull), store |-> st]}

\* The answers the store may give to request snd, each with the store after it.
StoreAnswers(st, snd, P) ==
    IF st.kind = "couch" THEN CouchAnswers(st, snd, P) ELSE AnyAnswers(st, snd, P)

-----------------------------------------------------------------------------
(* A request slot.                                                         *)

Reqs == 1..NumReqs

NoExc == [type |-> "none", msg |-> <<>>]
NoCfg == [base_url |-> <<>>, db |-> <<>>]
NoOutcome == [kind |-> "none", detail |-> <<>>]

Idle ==
    [handler |-> "none",     \* create_entry | list_entries
     pc |-> "idle",          \* the await the handler is suspended at
     cfg |-> NoCfg,          \* cfg
     trace |-> <<>>,         \* what the handler did, in order
     exc |-> NoExc,          \* the exception propagating, if any
     params |-> <<>>,        \* params
     doc_id |-> <<>>,        \* doc_id
     doc |-> JNull,          \* doc
     returned |-> <<>>,      \* the handler's return value
     outcome |-> NoOutcome]  \* how the request ended

Ev(name, a) == [ev |-> name, a |-> a]

Log(rq, e) == [rq EXCEPT !.trace = Append(@, e)]

\* await client.<method>(url, ...): the request goes out and the handler waits.
Send(rq, by, method, url, params, pc) ==
    [Log(rq, Ev("send", [by |-> by, method |-> method, url |-> url,
                         params |-> params]))
        EXCEPT !.pc = pc]

LastSend(rq) == rq.trace[Len(rq.trace)].a

\* The response (or the transport's exception) arrives.
Recv(rq, res) ==
    LET logged == Log(rq, Ev("recv", res))
    IN  IF res.raised
        THEN [logged EXCEPT !.exc = Exc("TransportError", <<res.text>>)]
        ELSE logged

\* raise HTTPException(status_code=500, detail=...) leaving the handler.
Http500(rq, detail) ==
    [rq EXCEPT !.pc = "done", !.exc = NoExc,
               !.outcome = [kind |-> "http500", detail |-> detail]]

\* An exception no handler code catches: the framework's bare 500.
Uncaught(rq) ==
    [rq EXCEPT !.pc = "done",
               !.outcome = [kind |-> "uncaught", detail |-> <<rq.exc.type>>]]

-----------------------------------------------------------------------------
(* ensure_db_exists, cut at its two awaits.  Each piece takes the request  *)
(* record and gives it back with the events logged and either an await     *)
(* pending (pc), the call returned ("ensure_return") or an exception       *)
(* propagating (exc).                                                      *)

EnsureReturn(rq) == Log(rq, Ev("ensure_return", [ok |-> TRUE]))

EnsureRaise(rq, e) == [Log(rq, Ev("ensure_raise", e)) EXCEPT !.exc = e]

\* validate_db_name(db); db_path = ...; get_res = await client.get(db_path)
EnsureStart(rq, base_url, db) ==
    LET v == validate_db_name(db)
        checked == Log(Log(rq, Ev("ensure_call", [db |-> db])),
                       Ev("validate", [db |-> db, ok |-> v.ok]))
    IN  IF ~v.ok THEN EnsureRaise(checked, v.exc)
        ELSE Send(checked, "ensure_db_exists", "GET", db_path(base_url, db),
                  <<>>, "ensure_get")

\* From get_res to the return, the raise or the await of the PUT.
EnsureGetResume(rq, res) ==
    LET got == Recv(rq, res)
        d == EnsureAfterGet(res.status, res.text)
    IN  IF res.raised THEN EnsureRaise(got, got.exc)
        ELSE IF d.next = "return" THEN EnsureReturn(got)
        ELSE IF d.next = "raise" THEN EnsureRaise(got, d.exc)
        ELSE Send(got, "ensure_db_exists", "PUT", LastSend(rq).url,
                  <<>>, "ensure_put")

\* From put_res to the return or the raise.
EnsurePutResume(rq, res) ==
    LET got == Recv(rq, res)
        d == EnsureAfterPut(res.status, res.text)
    IN  IF res.raised THEN EnsureRaise(got, got.exc)
        ELSE IF d.next = "return" THEN EnsureReturn(got)
        ELSE EnsureRaise(got, d.exc)

-----------------------------------------------------------------------------
(* list_entries.                                                           *)

\* params = {"include_docs": "true"}, plus limit and skip when given.
ListParams(q) ==
    [k \in {"include_docs"} \cup DOMAIN q |->
        IF k = "include_docs" THEN "true" ELSE ToString(q[k])]

all_docs_url(cfg) == cfg.base_url \o <<"/">> \o cfg.db \o AllDocsSuffix

LastEv(rq) == rq.trace[Len(rq.trace)].ev

ListAfterEnsureMutSwallow(rq, params) ==
    IF LastEv(rq) \in {"ensure_return", "ensure_raise"}
    THEN Send([rq EXCEPT !.exc = NoExc], "list_entries", "GET",
              all_docs_url(rq.cfg), params, "all_docs")
    ELSE rq

\* After `await ensure_db_exists(...)`: once the ensurer has returned, the
\* bulk listing is requested; an exception propagates and a pending await of
\* the ensurer stays pending.
ListAfterEnsure(rq, params) ==
    IF LastEv(rq) = "ensure_return"
    THEN Send(rq, "list_entries", "GET", all_docs_url(rq.cfg), params, "all_docs")
    ELSE rq

\* except Exception as e: raise HTTPException(500, detail=f"Error: {str(e)}")
ListExcept(rq) ==
    IF rq.exc = NoExc THEN rq
    ELSE Http500(Log(rq, Ev("except", rq.exc)), <<"Error: ">> \o Str(rq.exc))

\* The bulk listing's response: the status check and the row filter.
ListAllDocsResume(rq, res) ==
    LET got == Recv(rq, res)
    IN  IF res.raised THEN got
        ELSE IF res.status # 200
        THEN [got EXCEPT !.exc = HTTPException(<<"CouchDB error: ", res.text>>)]
        ELSE LET rows == DictGet(res.json, "rows", JArr(<<>>))
             IN  [got EXCEPT !.pc = "done",
                             !.returned = FilterRows(rows.v),
                             !.outcome = [kind |-> "ok", detail |-> <<>>]]

\* GET /entries arrives: from the top of the handler to the ensurer's GET.
ListStart(r, q, P) ==
    /\ req[r].pc = "idle"
    /\ LET c == get_couch_config(env)
           rq0 == Log([req[r] EXCEPT !.handler = "list_entries"],
                      Ev("config", [ok |-> c.ok]))
       IN  req' = [req EXCEPT ![r] =
                IF ~c.ok THEN ListExcept([rq0 EXCEPT !.exc = c.exc])
                ELSE LET rq1 == [rq0 EXCEPT !.cfg = [base_url |-> c.base_url,
                                                     db |-> c.db],
                                            !.params = ListParams(q)]
                     IN  ListExcept(ListAfterEnsure(
                             EnsureStart(rq1, c.base_url, c.db), rq1.params))]
    /\ UNCHANGED <<env, store>>

\* The store answers the ensurer's GET.
ListEnsureGet(r, P) ==
    /\ req[r].pc = "ensure_get"
    /\ \E a \in StoreAnswers(store, LastSend(req[r]), P) :
        /\ store' = a.store
        /\ req' = [req EXCEPT ![r] =
                ListExcept(ListAfterEnsure(EnsureGetResume(req[r], a.res),
                                           req[r].params))]
    /\ UNCHANGED env

\* The store answers the ensurer's PUT.
ListEnsurePut(r, P) ==
    /\ req[r].pc = "ensure_put"
    /\ \E a \in StoreAnswers(store, LastSend(req[r]), P) :
        /\ store' = a.store
        /\ req' = [req EXCEPT ![r] =
                ListExcept(ListAfterEnsure(EnsurePutResume(req[r], a.res),
                                           req[r].params))]
    /\ UNCHANGED env

\* The store answers the bulk listing.
ListAllDocs(r, P) ==
    /\ req[r].pc = "all_docs"
    /\ \E a \in StoreAnswers(store, LastSend(req[r]), P) :
        /\ store' = a.store
        /\ req' = [req EXCEPT ![r] = ListExcept(ListAllDocsResume(req[r], a.res))]
    /\ UNCHANGED env

-----------------------------------------------------------------------------
(* create_entry.                                                           *)

JNum(n) == [t |-> "num", v |-> n]

\* The fields class EntryCreate declares.
EntryCreateFields ==
    {"entryType", "category", "amount", "currency", "paymentMethod", "notes",
     "recordedBy", "deviceId", "meta"}

EntryCreateDefault(f) ==
    CASE f = "currency" -> JStr("PKR")
      [] f = "paymentMethod" -> JStr("cash")
      [] f = "recordedBy" -> JStr("manual")
      [] OTHER -> JNull

\* EntryCreate(**body): declared fields are taken from the body or defaulted;
\* keys of the body the class does not declare are ignored.
EntryCreateParse(body) ==
    [f \in EntryCreateFields |->
        IF f \in DOMAIN body.v THEN body.v[f] ELSE EntryCreateDefault(f)]

\* payload.<name> raises AttributeError unless <name> is a field.
HasAttr(payload, name) == name \in DOMAIN payload

\* Truthiness of an optional string or object in `x or default`, `if x`.
Truthy(x) == x.t # "null" /\ ~(x.t = "str" /\ x.v = "")

\* doc = {...}: [ok |-> TRUE, doc] or [ok |-> FALSE, exc].
BuildDoc(payload, doc_id, now_iso) ==
    IF ~HasAttr(payload, "date")
    THEN [ok |-> FALSE,
          exc |-> Exc("AttributeError",
                      <<"'EntryCreate' object has no attribute 'date'">>)]
    ELSE [ok |-> TRUE,
          doc |-> JObj([k \in {"_id", "type", "entryType", "category", "amount",
                               "currency", "paymentMethod", "notes", "createdAt",
                               "recordedBy", "deviceId", "syncStatus", "meta"} |->
              CASE k = "_id" -> JStr(doc_id)
                [] k = "type" -> JStr("entry")
                [] k = "currency" ->
                    IF Truthy(payload[k]) THEN payload[k] ELSE JStr("PKR")
                [] k = "paymentMethod" ->
                    IF Truthy(payload[k]) THEN payload[k] ELSE JStr("cash")
                [] k = "createdAt" ->
                    IF Truthy(payload["date"]) THEN payload["date"] ELSE JStr(now_iso)
                [] k = "syncStatus" -> JStr("local")
                [] OTHER -> payload[k]])]

create_url(cfg) == cfg.base_url \o <<"/">> \o cfg.db

\* POST /entries arrives with a body EntryCreate accepts: from the top of the
\* handler to the POST to the store.
create_entry(r, body, choice, P) ==
    /\ req[r].pc = "idle"
    /\ LET c == get_couch_config(env)
           payload == EntryCreateParse(body)
           rq0 == Log([req[r] EXCEPT !.handler = "create_entry"],
                      Ev("config", [ok |-> c.ok]))
           doc_id == <<"#">> \o generate_short_id(7, choice)
           built == BuildDoc(payload, doc_id, "now_iso")
       IN  req' = [req EXCEPT ![r] =
                IF ~c.ok THEN Http500(rq0, c.exc.msg)
                ELSE LET rq1 == [rq0 EXCEPT !.cfg = [base_url |-> c.base_url,
                                                     db |-> c.db],
                                            !.doc_id = doc_id]
                     IN  IF ~built.ok
                         THEN Uncaught([rq1 EXCEPT !.exc = built.exc])
                         ELSE Send([rq1 EXCEPT !.doc = built.doc],
                                   "create_entry", "POST", create_url(rq1.cfg),
                                   <<>>, "create_post")]
    /\ UNCHANGED <<env, store>>

\* The store answers the POST.  No request ever waits here (BuildDoc raises
\* for every payload, so pc is never "create_post"): the step is written out
\* for the rest of the handler and is no disjunct of the next-state relation.
create_entry_post(r, P) ==
    /\ req[r].pc = "create_post"
    /\ \E a \in StoreAnswers(store, LastSend(req[r]), P) :
        /\ store' = a.store
        /\ req' = [req EXCEPT ![r] =
                LET got == Recv(req[r], a.res)
                IN  IF a.res.raised THEN Uncaught(got)
                    ELSE IF a.res.status \notin {200, 201, 202}
                    THEN Http500(got, <<"CouchDB error: ", a.res.text>>)
                    ELSE [got EXCEPT !.pc = "done", !.returned = got.doc,
                                     !.outcome = [kind |-> "ok", detail |-> <<>>]]]
    /\ UNCHANGED env

-----------------------------------------------------------------------------
(* Inputs.                                                                 *)

Statuses == {200, 201, 202, 401, 403, 404, 412, 500}

\* The environment in which exactly the variables with a value are set.
EnvOf(url, url2, db, db2) ==
    LET all == [k \in {"COUCHDB_URL", "NEXT_PUBLIC_COUCHDB_URL", "COUCHDB_DB",
                       "NEXT_PUBLIC_DB_NAME"} |->
                   CASE k = "COUCHDB_URL" -> url
                     [] k = "NEXT_PUBLIC_COUCHDB_URL" -> url2
                     [] k = "COUCHDB_DB" -> db
                     [] OTHER -> db2]
    IN  [k \in {j \in DOMAIN all : all[j] # None} |-> all[k]]

RECURSIVE SeqsUpTo(_, _)
SeqsUpTo(S, n) ==
    IF n = 0 THEN {<<>>}
    ELSE LET shorter == SeqsUpTo(S, n - 1)
         IN  shorter \cup {Append(s, x) : s \in shorter, x \in S}

\* Rows of an _all_docs response: entry documents, documents of another type,
\* of no type, a row with no document, a row whose document is null.
DocOf(id, fields) == JObj([k \in {"_id"} \cup DOMAIN fields |->
                            IF k = "_id" THEN JStr(id) ELSE fields[k]])
RowOf(id, fields) == JObj([k \in {"id"} \cup DOMAIN fields |->
                            IF k = "id" THEN JStr(id) ELSE fields[k]])
TypeIs(t) == [k \in {"type"} |-> JStr(t)]
WithDoc(d) == [k \in {"doc"} |-> d]

RowKinds ==
    {RowOf("#a", WithDoc(DocOf("#a", TypeIs("entry")))),
     RowOf("#b", WithDoc(DocOf("#b", TypeIs("entry")))),
     RowOf("c", WithDoc(DocOf("c", TypeIs("budget")))),
     RowOf("d", WithDoc(DocOf("d", <<>>))),
     RowOf("e", <<>>),
     RowOf("f", WithDoc(JNull))}

BodyOf(rows) == JObj([k \in {"rows"} |-> JArr(rows)])

BodyNoRows == JObj([k \in {"error"} |-> JStr("x")])

MinimalBody ==
    JObj([k \in {"entryType", "category", "amount"} |->
            CASE k = "entryType" -> JStr("expense")
              [] k = "category" -> JStr("food")
              [] OTHER -> JNum(12)])

BodyWithDate ==
    JObj([k \in {"entryType", "category", "amount", "currency", "date"} |->
            CASE k = "entryType" -> JStr("income")
              [] k = "category" -> JStr("pay")
              [] k = "currency" -> JStr("USD")
              [] k = "date" -> JStr("2024-01-01T00:00:00.000Z")
              [] OTHER -> JNum(3)])

\* Positions of the alphabet spread from its first to its last character.
ChoicePool(n) ==
    {1 + ((k * (Len(alphabet) - 1)) \div (n - 1)) : k \in 0..(n - 1)}

PoolsConc ==
    [statuses |-> {200, 201, 403, 404, 412, 500},
     texts |-> {"body"},
     bodies |-> {BodyOf(<<>>),
                 BodyOf(<<RowOf("c", WithDoc(DocOf("c", TypeIs("budget")))),
                          RowOf("#a", WithDoc(DocOf("#a", TypeIs("entry"))))>>)},
     choices |-> {1},
     queries |-> {<<>>},
     payloads |-> {MinimalBody}]

PoolsInputs ==
    [statuses |-> Statuses,
     texts |-> {"", "body"},
     bodies |-> {BodyOf(rows) : rows \in SeqsUpTo(RowKinds, MaxRows)}
                \cup {BodyNoRows},
     choices |-> ChoicePool(NumChoices),
     queries |-> {<<>>, [k \in {"limit"} |-> 2],
                  [k \in {"limit", "skip"} |-> IF k = "limit" THEN 2 ELSE 1]},
     payloads |-> {MinimalBody, BodyWithDate}]

EnvConc ==
    {EnvOf(<<"h">>, None, None, None),
     EnvOf(None, <<"h", "/">>, <<"a", "/", "b">>, None),
     EnvOf(<<"h">>, None, <<"A">>, None),
     EnvOf(None, None, <<"a">>, None)}

EnvInputs ==
    {EnvOf(url, url2, db, None) :
        url \in {None, <<>>, <<"h">>, <<" ", "'", "\"", "h", "/", "/", "\"", "'">>},
        url2 \in {None, <<"g">>},
        db \in {None, <<" ", "a", "$", " ">>}}

NameChars == {"a", "0", "_", "$", "(", ")", "+", "-", "/", "A", " "}

EnvNames ==
    {EnvOf(<<"h">>, None, db, db2) :
        db \in SeqsUpTo(NameChars, MaxNameLen), db2 \in {None}}
    \cup {EnvOf(<<"h">>, None, None, <<"b", "+">>)}

-----------------------------------------------------------------------------
(* Specifications.                                                         *)

InitWith(E, kinds) ==
    /\ env \in E
    /\ store \in {[kind |-> k, dbs |-> {}] : k \in kinds}
    /\ req = [r \in Reqs |-> Idle]

NextWith(R, P) ==
    \E r \in R :
        \/ \E body \in P.payloads, choice \in [1..7 -> P.choices] :
                create_entry(r, body, choice, P)
        \/ \E q \in P.queries : ListStart(r, q, P)
        \/ ListEnsureGet(r, P)
        \/ ListEnsurePut(r, P)
        \/ ListAllDocs(r, P)

\* Concurrent requests against either store.
Init == InitWith(EnvConc, {"couch", "any"})
Next == NextWith(Reqs, PoolsConc)
Spec == Init /\ [][Next]_vars

\* One request, every status, text, row sequence, query and payload.
InitInputs == InitWith(EnvInputs, {"any"})
NextInputs == NextWith({1}, PoolsInputs)
SpecInputs == InitInputs /\ [][NextInputs]_vars

\* One request, every configured database name.
InitNames == InitWith(EnvNames, {"any", "couch"})
NextNames == NextWith({1}, PoolsConc)
SpecNames == InitNames /\ [][NextNames]_vars

-----------------------------------------------------------------------------
(* Reading a request's trace.                                              *)

Trace(r) == req[r].trace

IsSend(e, by, method) ==
    e.ev = "send" /\ e.a.by = by /\ e.a.method = method

\* Positions of the trace holding a request sent by `by` with `method`.
SendsAt(r, by, method) ==
    {i \in 1..Len(Trace(r)) : IsSend(Trace(r)[i], by, method)}

\* Positions holding the response to the request sent by `by` with `method`.
AnswersAt(r, by, method) ==
    {i \in 2..Len(Trace(r)) :
        /\ Trace(r)[i].ev = "recv"
        /\ ~Trace(r)[i].a.raised
        /\ IsSend(Trace(r)[i - 1], by, method)}

EventsAt(r, name) == {i \in 1..Len(Trace(r)) : Trace(r)[i].ev = name}

Range(f) == {f[i] : i \in DOMAIN f}

-----------------------------------------------------------------------------
(* C1: in ensure_db_exists a PUT is issued only right after the GET to    *)
(* the same path returned 404; a GET answered 200 makes the ensurer return *)
(* and a GET answered with any status other than 200 and 404 makes it      *)
(* raise, in both cases with no PUT; each call issues at most one GET and  *)
(* at most one PUT, the GET first.                                         *)
C1_PutOnlyAfterGet404 ==
    \A r \in Reqs :
        LET t == Trace(r)
        IN  /\ Cardinality(SendsAt(r, "ensure_db_exists", "GET")) <= 1
            /\ Cardinality(SendsAt(r, "ensure_db_exists", "PUT")) <= 1
            /\ \A i \in SendsAt(r, "ensure_db_exists", "PUT") :
                /\ i - 1 \in AnswersAt(r, "ensure_db_exists", "GET")
                /\ t[i - 1].a.status = 404
                /\ t[i - 2].a.url = t[i].a.url
            /\ \A i \in AnswersAt(r, "ensure_db_exists", "GET") :
                /\ t[i].a.status = 200 => t[i + 1].ev = "ensure_return"
                /\ t[i].a.status \notin {200, 404} =>
                        /\ t[i + 1].ev = "ensure_raise"
                        /\ SendsAt(r, "ensure_db_exists", "PUT") = {}

\* One ensurer went on to the PUT after a 404 while another, answered 403,
\* raised without one.
C1_Witness ==
    \E r1, r2 \in Reqs :
        /\ SendsAt(r1, "ensure_db_exists", "PUT") # {}
        /\ \E i \in AnswersAt(r2, "ensure_db_exists", "GET") :
                Trace(r2)[i].a.status = 403
        /\ EventsAt(r2, "ensure_raise") # {}
        /\ SendsAt(r2, "ensure_db_exists", "PUT") = {}

-----------------------------------------------------------------------------
(* C2: for every GET status and PUT status the ensurer returns exactly    *)
(* when GET is 200, or GET is 404 and PUT is 200, 201, 202 or 412; it      *)
(* raises the unauthorized error when GET is 401/403 or GET is 404 and PUT *)
(* is 401/403; and for every other GET status, and every other PUT status  *)
(* after a 404, it raises an error whose message carries the status and    *)
(* the response body.                                                      *)

Unauthorized(e) ==
    /\ e.type = "RuntimeError"
    /\ e.msg \in {<<"Unauthorized to access CouchDB. Check credentials/URL.">>,
                  <<"Unauthorized to create DB. Check credentials/URL.">>}

CarriesStatusAndBody(e, res) ==
    /\ e.type = "RuntimeError"
    /\ ~Unauthorized(e)
    /\ \E i \in 1..Len(e.msg) :
        /\ e.msg[i] = ToString(res.status)
        /\ \E j \in (i + 1)..Len(e.msg) : e.msg[j] = res.text

\* The ensurer's result once the store has answered its last request with res:
\* the event that follows in the trace.
EnsurerRaised(r, i) == Trace(r)[i + 1].ev = "ensure_raise"
EnsurerReturned(r, i) == Trace(r)[i + 1].ev = "ensure_return"

C2_EnsurerOutcomeByStatus ==
    \A r \in Reqs :
        LET t == Trace(r)
        IN  /\ \A i \in AnswersAt(r, "ensure_db_exists", "GET") :
                LET g == t[i].a
                IN  /\ g.status = 200 => EnsurerReturned(r, i)
                    /\ g.status \in {401, 403} =>
                            EnsurerRaised(r, i) /\ Unauthorized(t[i + 1].a)
                    /\ g.status \notin {200, 401, 403, 404} =>
                            EnsurerRaised(r, i) /\ CarriesStatusAndBody(t[i + 1].a, g)
                    /\ g.status = 404 => IsSend(t[i + 1], "ensure_db_exists", "PUT")
            /\ \A i \in AnswersAt(r, "ensure_db_exists", "PUT") :
                LET p == t[i].a
                IN  /\ p.status \in {200, 201, 202, 412} => EnsurerReturned(r, i)
                    /\ p.status \in {401, 403} =>
                            EnsurerRaised(r, i) /\ Unauthorized(t[i + 1].a)
                    /\ p.status \notin {200, 201, 202, 412, 401, 403} =>
                            EnsurerRaised(r, i) /\ CarriesStatusAndBody(t[i + 1].a, p)

\* GET 404, then PUT 500 with a non-empty body: the ensurer raised.
C2_Witness ==
    \E r \in Reqs :
        \E i \in AnswersAt(r, "ensure_db_exists", "PUT") :
            /\ Trace(r)[i].a.status = 500
            /\ Trace(r)[i].a.text = "body"
            /\ Trace(r)[i - 2].a.status = 404
            /\ EnsurerRaised(r, i)

-----------------------------------------------------------------------------
(* C3: against a store that holds no database at first, answers GET with  *)
(* 404 until a PUT has created the database, the first PUT with 201 and    *)
(* every later PUT with 412, every concurrent ensurer that reaches the     *)
(* store returns (none raises because another one created the database),   *)
(* under every interleaving, and the database exists once one has returned.*)
C3_ConcurrentEnsurersSucceed ==
    store.kind = "couch" =>
        \A r \in Reqs :
            /\ \A i \in EventsAt(r, "ensure_raise") : Trace(r)[i - 1].ev = "validate"
            /\ \A i \in EventsAt(r, "ensure_return") :
                    db_path(req[r].cfg.base_url, req[r].cfg.db) \in store.dbs

\* Two ensurers raced: both saw 404, one PUT got 201, the other 412, and both
\* returned.
C3_Witness ==
    /\ store.kind = "couch"
    /\ \E r1, r2 \in Reqs :
        /\ r1 # r2
        /\ EventsAt(r1, "ensure_return") # {}
        /\ EventsAt(r2, "ensure_return") # {}
        /\ \E i \in AnswersAt(r1, "ensure_db_exists", "PUT") :
                Trace(r1)[i].a.status = 201
        /\ \E i \in AnswersAt(r2, "ensure_db_exists", "PUT") :
                Trace(r2)[i].a.status = 412

-----------------------------------------------------------------------------
(* C4: in list_entries the bulk-listing GET is issued only after Config   *)
(* was resolved and, after that, the ensurer was called and returned; it   *)
(* is never issued when Config resolution fails or the ensurer raises.     *)
C4_ListOrder ==
    \A r \in Reqs :
        LET t == Trace(r)
        IN  /\ \A i \in SendsAt(r, "list_entries", "GET") :
                \E c, e, k \in 1..Len(t) :
                    /\ c < e /\ e < k /\ k < i
                    /\ t[c].ev = "config" /\ t[c].a.ok
                    /\ t[e].ev = "ensure_call"
                    /\ t[k].ev = "ensure_return"
            /\ (\/ EventsAt(r, "ensure_raise") # {}
                \/ \E c \in EventsAt(r, "config") : ~t[c].a.ok)
                    => SendsAt(r, "list_entries", "GET") = {}

\* One listing reached the bulk GET after its ensurer returned; in another
\* the ensurer raised and the request ended without it.
C4_Witness ==
    \E r1, r2 \in Reqs :
        /\ SendsAt(r1, "list_entries", "GET") # {}
        /\ EventsAt(r2, "ensure_raise") # {}
        /\ req[r2].pc = "done"

-----------------------------------------------------------------------------
(* C5: when the store answers the bulk-listing GET with status 200 (a     *)
(* JSON object whose rows, if any, are objects), list_entries succeeds and *)
(* returns exactly the documents of the rows whose document is an object   *)
(* with type "entry", in the store's order; every other row is dropped.    *)

RowDocs(rows) == [i \in 1..Len(rows) |-> DictGet(rows[i], "doc", JNull)]

IsEntryDoc(d) ==
    /\ d.t = "obj"
    /\ "type" \in DOMAIN d.v
    /\ d.v["type"].t = "str"
    /\ d.v["type"].v = "entry"

ResponseRows(res) ==
    IF "rows" \in DOMAIN res.json.v THEN res.json.v["rows"].v ELSE <<>>

C5_ListReturnsEntryRowsInOrder ==
    \A r \in Reqs :
        \A i \in AnswersAt(r, "list_entries", "GET") :
            Trace(r)[i].a.status = 200 =>
                /\ req[r].outcome.kind = "ok"
                /\ req[r].returned =
                        SelectSeq(RowDocs(ResponseRows(Trace(r)[i].a)), IsEntryDoc)

\* A 200 listing of two rows of which the first was dropped and the second,
\* an entry, returned.
C5_Witness ==
    \E r \in Reqs :
        \E i \in AnswersAt(r, "list_entries", "GET") :
            /\ Trace(r)[i].a.status = 200
            /\ Len(ResponseRows(Trace(r)[i].a)) = 2
            /\ ~IsEntryDoc(RowDocs(ResponseRows(Trace(r)[i].a))[1])
            /\ Len(req[r].returned) = 1
            /\ req[r].returned[1] = RowDocs(ResponseRows(Trace(r)[i].a))[2]

-----------------------------------------------------------------------------
(* C6: for every valid create payload and a resolvable Config,            *)
(* create_entry issues a single POST of the built document to              *)
(* {base_url}/{db}; on a store status of 200, 201 or 202 it returns the    *)
(* created document, and on any other status it fails with a 500 carrying  *)
(* the store's response body.                                              *)
C6_CreatePostsDocument ==
    \A r \in Reqs :
        (/\ req[r].handler = "create_entry"
         /\ \E c \in EventsAt(r, "config") : Trace(r)[c].a.ok)
        =>
        /\ Cardinality(EventsAt(r, "send")) = 1
        /\ \A i \in EventsAt(r, "send") :
            /\ IsSend(Trace(r)[i], "create_entry", "POST")
            /\ Trace(r)[i].a.url = req[r].cfg.base_url \o <<"/">> \o req[r].cfg.db
        /\ req[r].doc.t = "obj"
        /\ \A i \in AnswersAt(r, "create_entry", "POST") :
            IF Trace(r)[i].a.status \in {200, 201, 202}
            THEN req[r].outcome.kind = "ok" /\ req[r].returned = req[r].doc
            ELSE /\ req[r].outcome.kind = "http500"
                 /\ Trace(r)[i].a.text \in Range(req[r].outcome.detail)

-----------------------------------------------------------------------------
-----------------------------------------------------------------------------
(* C8: in both handlers every failure is caught at the handler boundary   *)
(* and ends the request in an HTTP 500 carrying a descriptive message,     *)
(* never in an uncaught exception, and nothing is retried: no store        *)
(* request follows a store call that raised or returned an unexpected      *)
(* status.                                                                 *)
C8_FailuresEndIn500 ==
    \A r \in Reqs :
        /\ req[r].pc = "done" =>
            /\ req[r].outcome.kind \in {"ok", "http500"}
            /\ req[r].outcome.kind = "http500" => req[r].outcome.detail # <<>>
        /\ \A i \in EventsAt(r, "except") :
            \A j \in (i + 1)..Len(Trace(r)) : Trace(r)[j].ev # "send"
        /\ \A i \in EventsAt(r, "recv") :
            Trace(r)[i].a.raised => \A j \in (i + 1)..Len(Trace(r)) : Trace(r)[j].ev # "send"

-----------------------------------------------------------------------------
(* C9: every document identifier create_entry builds is '#' followed by   *)
(* exactly 7 characters of the generator's alphabet; the alphabet has      *)
(* exactly 57 distinct characters (as claimed; 55 as amended) and none of  *)
(* 0, O, 1, I, l.                                                          *)

Ambiguous == {"0", "O", "1", "I", "l"}

DocIdShape(id) ==
    /\ Len(id) = 8
    /\ id[1] = "#"
    /\ \A i \in 2..8 : id[i] \in Range(alphabet)

\* The claim as stated: 57 characters.
C9_IdOverAlphabetOf57 ==
    \A r \in Reqs :
        req[r].doc_id # <<>> =>
            /\ DocIdShape(req[r].doc_id)
            /\ Cardinality(Range(alphabet)) = 57
            /\ Len(alphabet) = 57
            /\ Range(alphabet) \cap Ambiguous = {}

\* The claim as amended: 55 characters.
C9_IdOverAlphabetOf55 ==
    \A r \in Reqs :
        req[r].doc_id # <<>> =>
            /\ DocIdShape(req[r].doc_id)
            /\ Cardinality(Range(alphabet)) = 55
            /\ Len(alphabet) = 55
            /\ Range(alphabet) \cap Ambiguous = {}

\* An identifier was built whose draws were not all the same character.
C9_Witness ==
    \E r \in Reqs :
        /\ req[r].handler = "create_entry"
        /\ Len(req[r].doc_id) = 8
        /\ req[r].doc_id[2] # req[r].doc_id[8]

-----------------------------------------------------------------------------
(* C10: within one list_entries request the database path of the bulk     *)
(* listing URL is the percent-encoded path the ensurer's GET and PUT used, *)
(* for every name validate_db_name accepts.                                *)
C10_ListingAddressesEnsuredDb ==
    \A r \in Reqs :
        \A i \in SendsAt(r, "list_entries", "GET") :
            \A j \in SendsAt(r, "ensure_db_exists", "GET")
                     \cup SendsAt(r, "ensure_db_exists", "PUT") :
                Trace(r)[i].a.url = Trace(r)[j].a.url \o AllDocsSuffix

====
